---------------------------- MODULE Spec2Model ----------------------------
(***************************************************************************)
(* The two adapter servers of the repository: newrelic-mcp/server.py and   *)
(* slack-mcp/server.py.  Every tool is one action that takes its arguments *)
(* and the outcome of the upstream call as inputs and runs the whole       *)
(* handler: credential guard, the upstream call, the normalisation of the  *)
(* response and the rendering of the text.  Text is built as Python builds *)
(* it, by concatenating strings.                                           *)
(*                                                                         *)
(* Three glyphs of the source are outside ASCII and are written BULLET,    *)
(* CHECK and CROSS here.  Timestamps are rendered in UTC.                  *)
(***************************************************************************)
EXTENDS Integers, Sequences, FiniteSets, TLC

VARIABLES
    api_key,        \* newrelic: module global read from NEWRELIC_API_KEY
    slack_token,    \* slack: module global read from SLACK_BOT_TOKEN
    slack_client,   \* slack: WebClient, or None when the token is not set
    tool,           \* name of the tool of the last invocation
    args,           \* its arguments
    upstream,       \* what the upstream call of that invocation yields
    sent,           \* the upstream calls the invocation made, in order
    result,         \* the string it returned (PyNone when it raised)
    raised,         \* the exception that escaped it (PyNone when it returned)
    path,           \* the return statement it left by
    repeats,        \* times the harness re-invoked it with the same inputs
    first           \* what the first of these invocations returned or raised

vars == <<api_key, slack_token, slack_client, tool, args, upstream, sent,
          result, raised, path, repeats, first>>

(***************************************************************************)
(* Bounds of the model.                                                    *)
(***************************************************************************)
MaxRecords == 2     \* records in an upstream collection
MaxRepeats == 1     \* re-invocations with the same inputs

(***************************************************************************)
(* Python values.                                                          *)
(***************************************************************************)
PyNone == "<None>"

Truthy(s) == s # PyNone /\ s # ""

Has(d, k) == k \in DOMAIN d

Get(d, k, default) == IF k \in DOMAIN d THEN d[k] ELSE default

\* dict.get(k) used as a condition, for a value that is a dict
TruthyDict(d, k) == k \in DOMAIN d /\ DOMAIN d[k] # {}

\* dict.get(k) used as a condition, for a value that is a string
TruthyStr(d, k) == k \in DOMAIN d /\ d[k] # ""

\* str() of an integer that may be missing (dict.get(k) with no default)
StrOrNone(d, k) == IF k \in DOMAIN d THEN ToString(d[k]) ELSE "None"

PyBool(b) == IF b THEN "True" ELSE "False"

Min(a, b) == IF a < b THEN a ELSE b

Ret(v) == [tag |-> "return", val |-> v]

Raise(type, msg) == [tag |-> "raise", type |-> type, msg |-> msg]

\* Mutant of reversed: the order is kept.
reversed_kept(s) == s

RECURSIVE reversed(_)
reversed(s) == IF s = <<>> THEN <<>> ELSE Append(reversed(Tail(s)), Head(s))

(***************************************************************************)
(* Text helpers used by the properties.                                    *)
(***************************************************************************)
StartsWith(s, p) == Len(s) >= Len(p) /\ SubSeq(s, 1, Len(p)) = p

Contains(s, p) ==
    \E i \in 1..(Len(s) - Len(p) + 1) : SubSeq(s, i, i + Len(p) - 1) = p

Count(s, p) ==
    Cardinality({i \in 1..(Len(s) - Len(p) + 1) : SubSeq(s, i, i + Len(p) - 1) = p})

BULLET == "+"
CHECK == "[v]"
CROSS == "[x]"


TwoDigits(n) == IF n < 10 THEN "0" \o ToString(n) ELSE ToString(n)

SeqsUpTo(S, n) == UNION {[1..k -> S] : k \in 0..n}

EmptyDict == [k \in {} |-> 0]

\* What a call left behind: the upstream calls made, and either the string
\* returned (with the return statement taken) or the exception that escaped.
Returned(reqs, text, by) ==
    [sent |-> reqs, result |-> text, raised |-> PyNone, path |-> by]

Escaped(reqs, exc) ==
    [sent |-> reqs, result |-> PyNone, raised |-> exc.msg, path |-> "raise"]

(***************************************************************************)
(* newrelic-mcp/server.py                                                  *)
(***************************************************************************)
BASE_URL == "https://api.newrelic.com/v2"

CONFIG_MSG_NEWRELIC ==
    "NewRelic API key not configured. Please set NEWRELIC_API_KEY environment variable."

\* Mutant of ensure_api_key: tests "api_key is None", so an empty key passes.
ensure_api_key_none_only(key) ==
    IF key = PyNone THEN Raise("ValueError", CONFIG_MSG_NEWRELIC) ELSE Ret(PyNone)

\* if not api_key: raise ValueError(...)
ensure_api_key(key) ==
    IF ~Truthy(key) THEN Raise("ValueError", CONFIG_MSG_NEWRELIC) ELSE Ret(PyNone)

\* Mutant of make_request: a failed request is tried a second time.
make_request_retry(key, endpoint, params, up) ==
    LET guard == ensure_api_key(key)
        req == [call |-> "requests.get", url |-> BASE_URL \o endpoint,
                params |-> params, key |-> key, timeout |-> 30]
    IN  IF guard.tag = "raise"
        THEN [sent |-> <<>>, out |-> guard]
        ELSE IF up.kind = "ok"
        THEN [sent |-> <<req>>, out |-> Ret(up.body)]
        ELSE [sent |-> <<req, req>>,
              out |-> Raise("Exception", "NewRelic API request failed: " \o up.cause)]

\* One requests.get, raise_for_status and response.json(); a RequestException
\* is re-raised as Exception("NewRelic API request failed: ...").  An exception
\* of response.json() that is no RequestException (requests before 2.27)
\* leaves make_request as it is.
make_request(key, endpoint, params, up) ==
    LET guard == ensure_api_key(key)
        req == [call |-> "requests.get", url |-> BASE_URL \o endpoint,
                params |-> params, key |-> key, timeout |-> 30]
    IN  IF guard.tag = "raise"
        THEN [sent |-> <<>>, out |-> guard]
        ELSE [sent |-> <<req>>,
              out |->
                CASE up.kind \in {"network", "http_error"} ->
                       Raise("Exception", "NewRelic API request failed: " \o up.cause)
                  [] up.kind = "bad_json" ->
                       IF up.is_request_exception
                       THEN Raise("Exception", "NewRelic API request failed: " \o up.cause)
                       ELSE Raise("ValueError", up.cause)
                  [] OTHER -> Ret(up.body)]

\* A JSON body that is no object (a list): data.get raises AttributeError.
NotObject == [not_object |-> TRUE]

IsObject(data) == ~("not_object" \in DOMAIN data)

NOT_OBJECT_MSG == "'list' object has no attribute 'get'"

\* f"{summary.get(k, 'N/A')}" for a number
NumOrNA(d, k) == IF k \in DOMAIN d THEN ToString(d[k]) ELSE "N/A"

\* Mutant of app_block: the language is read without its default.
app_block_no_default(app) ==
    LET health_status == Get(app, "health_status", "unknown")
        reporting == IF Get(app, "reporting", FALSE) THEN CHECK ELSE CROSS
        summary == app["application_summary"]
    IN  BULLET \o " **" \o Get(app, "name", "Unknown") \o "** (ID: "
        \o StrOrNone(app, "id") \o ")\n"
        \o "  - Health: " \o health_status \o "\n"
        \o "  - Reporting: " \o reporting \o "\n"
        \o "  - Language: " \o Get(app, "language", "") \o "\n"
        \o (IF TruthyDict(app, "application_summary")
            THEN "  - Response Time: " \o NumOrNA(summary, "response_time") \o "ms\n"
                 \o "  - Throughput: " \o NumOrNA(summary, "throughput") \o " rpm\n"
                 \o "  - Error Rate: " \o NumOrNA(summary, "error_rate") \o "%\n"
            ELSE "")
        \o "\n"

\* the body of the for loop of list_applications
app_block(app) ==
    LET health_status == Get(app, "health_status", "unknown")
        reporting == IF Get(app, "reporting", FALSE) THEN CHECK ELSE CROSS
        head == BULLET \o " **" \o Get(app, "name", "Unknown") \o "** (ID: "
                  \o StrOrNone(app, "id") \o ")\n"
                  \o "  - Health: " \o health_status \o "\n"
                  \o "  - Reporting: " \o reporting \o "\n"
                  \o "  - Language: " \o Get(app, "language", "N/A") \o "\n"
        summary == app["application_summary"]
    IN  head
        \o (IF TruthyDict(app, "application_summary")
            THEN "  - Response Time: " \o NumOrNA(summary, "response_time") \o "ms\n"
                 \o "  - Throughput: " \o NumOrNA(summary, "throughput") \o " rpm\n"
                 \o "  - Error Rate: " \o NumOrNA(summary, "error_rate") \o "%\n"
            ELSE "")
        \o "\n"

\* Mutant of app_blocks: a record without a name is skipped.
RECURSIVE app_blocks_skip_unnamed(_)
app_blocks_skip_unnamed(apps) ==
    IF apps = <<>> THEN ""
    ELSE (IF Has(Head(apps), "name") THEN app_block(Head(apps)) ELSE "")
         \o app_blocks_skip_unnamed(Tail(apps))

RECURSIVE app_blocks(_)
app_blocks(apps) ==
    IF apps = <<>> THEN "" ELSE app_block(Head(apps)) \o app_blocks(Tail(apps))

list_applications(key, a, up) ==
    LET names == (IF Truthy(a.filter_name) THEN {"filter[name]"} ELSE {})
                 \cup (IF Truthy(a.filter_language) THEN {"filter[language]"} ELSE {})
        params == [k \in names |->
                     IF k = "filter[name]" THEN a.filter_name ELSE a.filter_language]
        r == make_request(key, "/applications.json", params, up)
        data == r.out.val
        applications == Get(data, "applications", <<>>)
        prefix == "Error listing applications: "
    IN  IF r.out.tag = "raise"
        THEN Returned(r.sent, prefix \o r.out.msg, "except")
        ELSE IF ~IsObject(data)
        THEN Returned(r.sent, prefix \o NOT_OBJECT_MSG, "except")
        ELSE IF applications = <<>>
        THEN Returned(r.sent, "No applications found matching the criteria.", "empty")
        ELSE Returned(r.sent,
                      "Found " \o ToString(Len(applications)) \o " applications:\n\n"
                        \o app_blocks(applications),
                      "success")


\* "Yes"/"No" of a boolean field read with default False
YesNo(d, k) == IF Get(d, k, FALSE) THEN "Yes" ELSE "No"

get_application(key, a, up) ==
    LET id == ToString(a.app_id)
        r == make_request(key, "/applications/" \o id \o ".json", EmptyDict, up)
        data == r.out.val
        app == Get(data, "application", EmptyDict)
        summary == app["application_summary"]
        eu_summary == app["end_user_summary"]
        settings == app["settings"]
        prefix == "Error getting application details: "
    IN  IF r.out.tag = "raise"
        THEN Returned(r.sent, prefix \o r.out.msg, "except")
        ELSE IF ~IsObject(data)
        THEN Returned(r.sent, prefix \o NOT_OBJECT_MSG, "except")
        ELSE IF DOMAIN app = {}
        THEN Returned(r.sent, "Application with ID " \o id \o " not found.", "empty")
        ELSE Returned(r.sent,
               "**Application Details: " \o Get(app, "name", "Unknown") \o "**\n\n"
               \o "- **ID**: " \o StrOrNone(app, "id") \o "\n"
               \o "- **Health Status**: " \o Get(app, "health_status", "unknown") \o "\n"
               \o "- **Reporting**: " \o YesNo(app, "reporting") \o "\n"
               \o "- **Language**: " \o Get(app, "language", "N/A") \o "\n"
               \o (IF TruthyStr(app, "last_reported_at")
                   THEN "- **Last Reported**: " \o app["last_reported_at"] \o "\n"
                   ELSE "")
               \o (IF TruthyDict(app, "application_summary")
                   THEN "\n**Performance Summary:**\n"
                        \o "- Response Time: " \o NumOrNA(summary, "response_time") \o "ms\n"
                        \o "- Throughput: " \o NumOrNA(summary, "throughput") \o " rpm\n"
                        \o "- Error Rate: " \o NumOrNA(summary, "error_rate") \o "%\n"
                        \o "- Apdex Score: " \o NumOrNA(summary, "apdex_score") \o "\n"
                   ELSE "")
               \o (IF TruthyDict(app, "end_user_summary")
                   THEN "\n**End User Summary:**\n"
                        \o "- Response Time: " \o NumOrNA(eu_summary, "response_time") \o "ms\n"
                        \o "- Throughput: " \o NumOrNA(eu_summary, "throughput") \o " rpm\n"
                        \o "- Apdex Score: " \o NumOrNA(eu_summary, "apdex_score") \o "\n"
                   ELSE "")
               \o (IF TruthyDict(app, "settings")
                   THEN "\n**Settings:**\n"
                        \o "- App Apdex Threshold: "
                        \o NumOrNA(settings, "app_apdex_threshold") \o "s\n"
                        \o "- End User Apdex Threshold: "
                        \o NumOrNA(settings, "end_user_apdex_threshold") \o "s\n"
                        \o "- Enable Real User Monitoring: "
                        \o YesNo(settings, "enable_real_user_monitoring") \o "\n"
                   ELSE ""),
               "success")

\* str.split(",")
RECURSIVE split(_)
split(s) ==
    LET commas == {i \in 1..Len(s) : SubSeq(s, i, i) = ","}
        comma == CHOOSE i \in commas : \A j \in commas : i <= j
    IN  IF commas = {} THEN <<s>>
        ELSE <<SubSeq(s, 1, comma - 1)>> \o split(SubSeq(s, comma + 1, Len(s)))

\* datetime.isoformat() of a time of 2024-01-01 given in minutes after midnight
isoformat(m) ==
    "2024-01-01T" \o TwoDigits(m \div 60) \o ":" \o TwoDigits(m % 60) \o ":00"

\* the loop over values.items(), a dict in its insertion order
RECURSIVE value_lines(_)
value_lines(items) ==
    IF items = <<>> THEN ""
    ELSE "    " \o Head(items)[1] \o ": " \o ToString(Head(items)[2]) \o "\n"
         \o value_lines(Tail(items))

RECURSIVE timeslice_blocks(_)
timeslice_blocks(slices) ==
    IF slices = <<>> THEN ""
    ELSE LET timeslice == Head(slices)
         IN  "  Period: " \o Get(timeslice, "from", "") \o " to "
             \o Get(timeslice, "to", "") \o "\n"
             \o value_lines(Get(timeslice, "values", <<>>))
             \o "\n"
             \o timeslice_blocks(Tail(slices))

RECURSIVE metric_blocks(_)
metric_blocks(metrics) ==
    IF metrics = <<>> THEN ""
    ELSE "**" \o Get(Head(metrics), "name", "Unknown Metric") \o "**\n"
         \o timeslice_blocks(Get(Head(metrics), "timeslices", <<>>))
         \o metric_blocks(Tail(metrics))

\* params["from"] and params["to"]: up.now are the two readings of
\* datetime.utcnow(), the first taken only when from_time is not given, the
\* second only when to_time is not given.
metrics_params(a, up) ==
    [k \in {"names[]", "from", "to"} |->
        CASE k = "names[]" -> split(a.metric_names)
          [] k = "from" -> IF Truthy(a.from_time) THEN a.from_time
                           ELSE isoformat(up.now[1] - 30)
          [] OTHER -> IF Truthy(a.to_time) THEN a.to_time
                      ELSE isoformat(up.now[2])]

get_application_metrics(key, a, up) ==
    LET id == ToString(a.app_id)
        params == metrics_params(a, up)
        r == make_request(key, "/applications/" \o id \o "/metrics/data.json", params, up)
        data == r.out.val
        prefix == "Error getting application metrics: "
    IN  IF r.out.tag = "raise"
        THEN Returned(r.sent, prefix \o r.out.msg, "except")
        ELSE IF ~IsObject(data)
        THEN Returned(r.sent, prefix \o NOT_OBJECT_MSG, "except")
        ELSE IF ~TruthyDict(data, "metric_data")
        THEN Returned(r.sent, "No metric data found for application " \o id \o ".", "empty")
        ELSE IF ~Has(data["metric_data"], "metrics")
        THEN Returned(r.sent, prefix \o "'metrics'", "except")
        ELSE Returned(r.sent,
               "**Metrics for Application ID " \o id \o "**\n"
               \o "Time Range: " \o params["from"] \o " to " \o params["to"] \o "\n\n"
               \o metric_blocks(data["metric_data"]["metrics"]),
               "success")


\* the body of the for loop of list_servers
server_block(server) ==
    LET health_status == Get(server, "health_status", "unknown")
        reporting == IF Get(server, "reporting", FALSE) THEN CHECK ELSE CROSS
        summary == server["summary"]
    IN  BULLET \o " **" \o Get(server, "name", "Unknown") \o "** (ID: "
        \o StrOrNone(server, "id") \o ")\n"
        \o "  - Health: " \o health_status \o "\n"
        \o "  - Reporting: " \o reporting \o "\n"
        \o "  - Host: " \o Get(server, "host", "N/A") \o "\n"
        \o (IF TruthyDict(server, "summary")
            THEN "  - CPU: " \o NumOrNA(summary, "cpu") \o "%\n"
                 \o "  - Memory: " \o NumOrNA(summary, "memory") \o "%\n"
                 \o "  - Disk I/O: " \o NumOrNA(summary, "disk_io") \o "%\n"
            ELSE "")
        \o "\n"

RECURSIVE server_blocks(_)
server_blocks(servers) ==
    IF servers = <<>> THEN ""
    ELSE server_block(Head(servers)) \o server_blocks(Tail(servers))

list_servers(key, a, up) ==
    LET r == make_request(key, "/servers.json", EmptyDict, up)
        data == r.out.val
        servers == Get(data, "servers", <<>>)
        prefix == "Error listing servers: "
    IN  IF r.out.tag = "raise"
        THEN Returned(r.sent, prefix \o r.out.msg, "except")
        ELSE IF ~IsObject(data)
        THEN Returned(r.sent, prefix \o NOT_OBJECT_MSG, "except")
        ELSE IF servers = <<>>
        THEN Returned(r.sent, "No servers found.", "empty")
        ELSE Returned(r.sent,
                      "Found " \o ToString(Len(servers)) \o " servers:\n\n"
                        \o server_blocks(servers),
                      "success")

\* the body of the for loop of get_alert_policies
policy_block(policy) ==
    BULLET \o " **" \o Get(policy, "name", "Unknown") \o "** (ID: "
    \o StrOrNone(policy, "id") \o ")\n"
    \o "  - Incident Preference: " \o Get(policy, "incident_preference", "N/A") \o "\n"
    \o (IF TruthyStr(policy, "created_at")
        THEN "  - Created: " \o policy["created_at"] \o "\n" ELSE "")
    \o (IF TruthyStr(policy, "updated_at")
        THEN "  - Updated: " \o policy["updated_at"] \o "\n" ELSE "")
    \o "\n"

RECURSIVE policy_blocks(_)
policy_blocks(policies) ==
    IF policies = <<>> THEN ""
    ELSE policy_block(Head(policies)) \o policy_blocks(Tail(policies))

get_alert_policies(key, a, up) ==
    LET r == make_request(key, "/alert_policies.json", EmptyDict, up)
        data == r.out.val
        policies == Get(data, "policies", <<>>)
        prefix == "Error getting alert policies: "
    IN  IF r.out.tag = "raise"
        THEN Returned(r.sent, prefix \o r.out.msg, "except")
        ELSE IF ~IsObject(data)
        THEN Returned(r.sent, prefix \o NOT_OBJECT_MSG, "except")
        ELSE IF policies = <<>>
        THEN Returned(r.sent, "No alert policies found.", "empty")
        ELSE Returned(r.sent,
                      "Found " \o ToString(Len(policies)) \o " alert policies:\n\n"
                        \o policy_blocks(policies),
                      "success")


(***************************************************************************)
(* slack-mcp/server.py                                                     *)
(***************************************************************************)
CONFIG_MSG_SLACK ==
    "Slack client not initialized. Please set SLACK_BOT_TOKEN environment variable."

\* slack_client = None if not slack_token else WebClient(token=slack_token)
make_slack_client(token) == IF ~Truthy(token) THEN PyNone ELSE "WebClient"

\* if slack_client is None: raise ValueError(...)
ensure_slack_client(client) ==
    IF client = PyNone THEN Raise("ValueError", CONFIG_MSG_SLACK) ELSE Ret(PyNone)

\* One call of a slack_client method.  It returns a response (up.kind "ok"
\* or "not_ok", by its "ok" flag) or raises SlackApiError (carrying the
\* response, with its "error") or another exception.
slack_call(method, kwargs, up) ==
    [sent |-> <<[call |-> method, kwargs |-> kwargs]>>,
     out |-> CASE up.kind = "api_error" -> Raise("SlackApiError", up.error)
               [] up.kind = "exception" -> Raise("Exception", up.cause)
               [] OTHER -> Ret(up.body)]

\* response[k] of a key the body lacks: KeyError when the response is a
\* plain mapping, None when it is the SDK's response object.
KeyErrorMsg(k) == "'" \o k \o "'"

\* Mutant of slack_except: the error of the SlackApiError is not reported.
slack_except_no_cause(r, prefix) ==
    IF r.out.type = "SlackApiError"
    THEN Returned(r.sent, "Slack API error: request failed", "except_api")
    ELSE Returned(r.sent, prefix \o r.out.msg, "except")

\* The two except clauses shared by the five tools, and the else branch of
\* "if response['ok']".
slack_except(r, prefix) ==
    IF r.out.type = "SlackApiError"
    THEN Returned(r.sent, "Slack API error: " \o r.out.msg, "except_api")
    ELSE Returned(r.sent, prefix \o r.out.msg, "except")

\* Mutant of slack_failed: the response's error field is not read.
slack_failed_no_error(r, prefix) ==
    Returned(r.sent, prefix \o "Unknown error", "failed")

slack_failed(r, prefix) ==
    Returned(r.sent, prefix \o Get(r.out.val, "error", "Unknown error"), "failed")

send_message(client, a, up) ==
    LET guard == ensure_slack_client(client)
        r == slack_call("chat_postMessage",
                        [channel |-> a.channel, text |-> a.text, thread_ts |-> a.thread_ts],
                        up)
        response == r.out.val
        prefix == "Error sending message: "
    IN  IF guard.tag = "raise" THEN Escaped(<<>>, guard)
        ELSE IF r.out.tag = "raise" THEN slack_except(r, prefix)
        ELSE IF up.kind = "not_ok" THEN slack_failed(r, "Failed to send message: ")
        ELSE IF ~Has(response, "ts") /\ up.on_missing = "KeyError"
        THEN Returned(r.sent, prefix \o KeyErrorMsg("ts"), "except")
        ELSE Returned(r.sent,
                      "Message sent successfully to " \o a.channel \o ". Timestamp: "
                        \o Get(response, "ts", "None"),
                      "success")

\* the f-string of the join of list_channels
channel_line(channel) ==
    "- #" \o Get(channel, "name", "") \o " (" \o channel["id"] \o ") - "
    \o (IF Get(channel, "is_private", FALSE) THEN "Private" ELSE "Public")

\* "\n".join(...)
RECURSIVE join(_)
join(lines) ==
    IF lines = <<>> THEN ""
    ELSE IF Len(lines) = 1 THEN Head(lines)
    ELSE Head(lines) \o "\n" \o join(Tail(lines))

list_channels(client, a, up) ==
    LET guard == ensure_slack_client(client)
        r == slack_call("conversations_list",
                        [types |-> a.types, exclude_archived |-> TRUE], up)
        response == r.out.val
        channels == response["channels"]
        prefix == "Error listing channels: "
    IN  IF guard.tag = "raise" THEN Escaped(<<>>, guard)
        ELSE IF r.out.tag = "raise" THEN slack_except(r, prefix)
        ELSE IF up.kind = "not_ok" THEN slack_failed(r, "Failed to list channels: ")
        ELSE IF ~Has(response, "channels")
        THEN Returned(r.sent,
                      prefix \o (IF up.on_missing = "KeyError" THEN KeyErrorMsg("channels")
                                 ELSE "'NoneType' object is not iterable"),
                      "except")
        ELSE IF \E i \in 1..Len(channels) : ~Has(channels[i], "id")
        THEN Returned(r.sent, prefix \o KeyErrorMsg("id"), "except")
        ELSE Returned(r.sent,
                      "Found " \o ToString(Len(channels)) \o " channels:\n"
                        \o join([i \in 1..Len(channels) |-> channel_line(channels[i])]),
                      "success")

\* datetime.fromtimestamp(float(ts)).strftime("%Y-%m-%d %H:%M:%S"), for a
\* time of the first day of the epoch
strftime(ts) ==
    "1970-01-01 " \o TwoDigits(ts \div 3600) \o ":" \o TwoDigits((ts % 3600) \div 60)
    \o ":" \o TwoDigits(ts % 60)

\* min(limit, 1000)
history_limit(limit) == Min(limit, 1000)

\* what the body of the for loop of get_channel_history raises for msg, if
\* anything: msg["ts"] of a message without one, [][0] of an empty files list
message_error(msg) ==
    IF ~Has(msg, "ts") THEN KeyErrorMsg("ts")
    ELSE IF Get(msg, "subtype", PyNone) = "file_share" /\ Get(msg, "files", <<EmptyDict>>) = <<>>
    THEN "list index out of range"
    ELSE PyNone

\* the body of the for loop of get_channel_history
message_line(msg) ==
    LET timestamp == strftime(msg["ts"])
        subtype == Get(msg, "subtype", PyNone)
        user == IF subtype = "bot_message" THEN Get(msg, "bot_id", "Bot")
                ELSE Get(msg, "user", "Unknown")
        text == IF subtype = "file_share"
                THEN "[File shared: "
                     \o Get(Get(msg, "files", <<EmptyDict>>)[1], "name", "Unknown") \o "]"
                ELSE Get(msg, "text", "")
    IN  "[" \o timestamp \o "] " \o user \o ": " \o text

\* what the for loop of get_channel_history raises: the error of the first
\* message, in the order of the loop, whose body raises
history_error(msgs) ==
    LET bad == {i \in 1..Len(msgs) : message_error(msgs[i]) # PyNone}
    IN  IF bad = {} THEN PyNone
        ELSE message_error(msgs[CHOOSE i \in bad : \A j \in bad : i <= j])

get_channel_history(client, a, up) ==
    LET guard == ensure_slack_client(client)
        base == [channel |-> a.channel, limit |-> history_limit(a.limit)]
        kwargs == IF Truthy(a.oldest)
                  THEN [channel |-> a.channel, limit |-> history_limit(a.limit),
                        oldest |-> a.oldest]
                  ELSE base
        r == slack_call("conversations_history", kwargs, up)
        response == r.out.val
        messages == Get(response, "messages", <<>>)
        order == reversed(messages)
        failure == history_error(order)
        prefix == "Error getting channel history: "
    IN  IF guard.tag = "raise" THEN Escaped(<<>>, guard)
        ELSE IF r.out.tag = "raise" THEN slack_except(r, prefix)
        ELSE IF up.kind = "not_ok" THEN slack_failed(r, "Failed to get channel history: ")
        ELSE IF ~Has(response, "messages") /\ up.on_missing = "KeyError"
        THEN Returned(r.sent, prefix \o KeyErrorMsg("messages"), "except")
        ELSE IF messages = <<>>
        THEN Returned(r.sent, "No messages found in " \o a.channel, "empty")
        ELSE IF failure # PyNone
        THEN Returned(r.sent, prefix \o failure, "except")
        ELSE Returned(r.sent,
                      "Message history for " \o a.channel \o " ("
                        \o ToString(Len(messages)) \o " messages):\n\n"
                        \o join([i \in 1..Len(order) |-> message_line(order[i])]),
                      "success")


get_user_info(client, a, up) ==
    LET guard == ensure_slack_client(client)
        r == slack_call("users_info", [user |-> a.user_id], up)
        response == r.out.val
        user == response["user"]
        profile == Get(user, "profile", EmptyDict)
        prefix == "Error getting user info: "
    IN  IF guard.tag = "raise" THEN Escaped(<<>>, guard)
        ELSE IF r.out.tag = "raise" THEN slack_except(r, prefix)
        ELSE IF up.kind = "not_ok" THEN slack_failed(r, "Failed to get user info: ")
        ELSE IF ~Has(response, "user")
        THEN Returned(r.sent,
                      prefix \o (IF up.on_missing = "KeyError" THEN KeyErrorMsg("user")
                                 ELSE "'NoneType' object has no attribute 'get'"),
                      "except")
        ELSE IF ~Has(user, "id")
        THEN Returned(r.sent, prefix \o KeyErrorMsg("id"), "except")
        ELSE Returned(r.sent,
                      join(<<"User ID: " \o user["id"],
                             "Name: " \o Get(user, "name", "N/A"),
                             "Real Name: " \o Get(profile, "real_name", "N/A"),
                             "Display Name: " \o Get(profile, "display_name", "N/A"),
                             "Email: " \o Get(profile, "email", "N/A"),
                             "Title: " \o Get(profile, "title", "N/A"),
                             "Status: " \o Get(profile, "status_text", "N/A"),
                             "Timezone: " \o Get(user, "tz", "N/A"),
                             "Is Admin: " \o PyBool(Get(user, "is_admin", FALSE)),
                             "Is Bot: " \o PyBool(Get(user, "is_bot", FALSE)),
                             "Is Deleted: " \o PyBool(Get(user, "deleted", FALSE))>>),
                      "success")

\* min(count, 100)
search_count(count) == Min(count, 100)

\* what the body of the for loop of search_messages raises for match
match_error(match) == IF ~Has(match, "ts") THEN KeyErrorMsg("ts") ELSE PyNone

\* the body of the for loop of search_messages
match_line(match) ==
    LET channel_name == Get(Get(match, "channel", EmptyDict), "name", "Unknown")
        user == Get(match, "user", "Unknown")
        text == Get(match, "text", "")
        timestamp == strftime(match["ts"])
    IN  "[" \o timestamp \o "] #" \o channel_name \o " - " \o user \o ": " \o text

\* what the for loop of search_messages raises
search_error(matches) ==
    LET bad == {i \in 1..Len(matches) : match_error(matches[i]) # PyNone}
    IN  IF bad = {} THEN PyNone
        ELSE match_error(matches[CHOOSE i \in bad : \A j \in bad : i <= j])

search_messages(client, a, up) ==
    LET guard == ensure_slack_client(client)
        r == slack_call("search_messages",
                        [query |-> a.query, count |-> search_count(a.count)], up)
        response == r.out.val
        matches == response["messages"]["matches"]
        failure == search_error(matches)
        prefix == "Error searching messages: "
    IN  IF guard.tag = "raise" THEN Escaped(<<>>, guard)
        ELSE IF r.out.tag = "raise" THEN slack_except(r, prefix)
        ELSE IF up.kind = "not_ok" THEN slack_failed(r, "Failed to search messages: ")
        ELSE IF ~Has(response, "messages")
        THEN Returned(r.sent,
                      prefix \o (IF up.on_missing = "KeyError" THEN KeyErrorMsg("messages")
                                 ELSE "'NoneType' object is not subscriptable"),
                      "except")
        ELSE IF ~Has(response["messages"], "matches")
        THEN Returned(r.sent, prefix \o KeyErrorMsg("matches"), "except")
        ELSE IF matches = <<>>
        THEN Returned(r.sent, "No messages found for query: '" \o a.query \o "'", "empty")
        ELSE IF failure # PyNone
        THEN Returned(r.sent, prefix \o failure, "except")
        ELSE Returned(r.sent,
                      "Search results for '" \o a.query \o "' ("
                        \o ToString(Len(matches)) \o " matches):\n\n"
                        \o join([i \in 1..Len(matches) |-> match_line(matches[i])]),
                      "success")


(***************************************************************************)
(* The inputs: credentials, arguments and upstream outcomes.               *)
(***************************************************************************)
Credentials == {PyNone, "", "secret"}

NewRelicFailures ==
    {[kind |-> "network", cause |-> "Read timed out."],
     [kind |-> "network", cause |-> "Connection refused"],
     [kind |-> "http_error", cause |-> "503 Server Error"],
     [kind |-> "bad_json", cause |-> "Expecting value", is_request_exception |-> TRUE],
     [kind |-> "bad_json", cause |-> "Expecting value", is_request_exception |-> FALSE]}

NewRelicUpstream(bodies) ==
    NewRelicFailures \cup {[kind |-> "ok", body |-> b] : b \in bodies \cup {NotObject}}

AppRecords ==
    {[name |-> "web", id |-> 7, health_status |-> "green", reporting |-> TRUE,
      language |-> "python",
      application_summary |-> [response_time |-> 12, throughput |-> 300, error_rate |-> 1]],
     [name |-> "api", id |-> 8, health_status |-> "red", reporting |-> FALSE,
      language |-> "java"],
     [name |-> "job", id |-> 9, application_summary |-> EmptyDict],
     [id |-> 10, application_summary |-> [response_time |-> 5]],
     [reporting |-> TRUE]}

ApplicationsBodies ==
    {EmptyDict} \cup {[applications |-> s] : s \in SeqsUpTo(AppRecords, MaxRecords)}

AppDetails ==
    {EmptyDict,
     [id |-> 7],
     [name |-> "web", id |-> 7, health_status |-> "green", reporting |-> TRUE,
      language |-> "python", last_reported_at |-> "2024-01-01T00:00:00+00:00",
      application_summary |-> [response_time |-> 12, throughput |-> 300,
                               error_rate |-> 1, apdex_score |-> 1],
      end_user_summary |-> [response_time |-> 2, throughput |-> 40, apdex_score |-> 1],
      settings |-> [app_apdex_threshold |-> 1, end_user_apdex_threshold |-> 7,
                    enable_real_user_monitoring |-> TRUE]],
     [name |-> "api", last_reported_at |-> "", application_summary |-> EmptyDict,
      end_user_summary |-> [throughput |-> 40], settings |-> [app_apdex_threshold |-> 1]]}

ApplicationBodies == {EmptyDict} \cup {[application |-> d] : d \in AppDetails}

MetricRecords ==
    {[name |-> "Apdex",
      timeslices |-> <<[from |-> "t0", to |-> "t1", values |-> << <<"score", 1>> >>]>>],
     [name |-> "Http", timeslices |-> <<EmptyDict>>],
     [timeslices |-> <<>>]}

MetricsBodies ==
    {EmptyDict, [metric_data |-> EmptyDict], [metric_data |-> [unit |-> "s"]]}
    \cup {[metric_data |-> [metrics |-> s]] : s \in SeqsUpTo(MetricRecords, MaxRecords)}

ServerRecords ==
    {[name |-> "db1", id |-> 3, health_status |-> "green", reporting |-> TRUE,
      host |-> "db1.local", summary |-> [cpu |-> 10, memory |-> 50, disk_io |-> 2]],
     [name |-> "db2", id |-> 4, reporting |-> FALSE, summary |-> EmptyDict],
     [id |-> 5, summary |-> [cpu |-> 99]],
     [host |-> "lost"]}

ServersBodies ==
    {EmptyDict} \cup {[servers |-> s] : s \in SeqsUpTo(ServerRecords, MaxRecords)}

PolicyRecords ==
    {[name |-> "prod", id |-> 1, incident_preference |-> "PER_POLICY",
      created_at |-> "1700000000", updated_at |-> "1700000500"],
     [name |-> "dev", id |-> 2, created_at |-> "1700000000", updated_at |-> ""],
     [id |-> 3]}

PoliciesBodies ==
    {EmptyDict} \cup {[policies |-> s] : s \in SeqsUpTo(PolicyRecords, MaxRecords)}

\* the readings of datetime.utcnow() of one call, in minutes after midnight
Clocks == {<<45, 45>>, <<59, 60>>}

WithNow(up, now) ==
    [k \in DOMAIN up \cup {"now"} |-> IF k = "now" THEN now ELSE up[k]]

SlackFailures ==
    {[kind |-> "api_error", error |-> "channel_not_found"],
     [kind |-> "api_error", error |-> "ratelimited"],
     [kind |-> "exception", cause |-> "The read operation timed out"],
     [kind |-> "not_ok", body |-> [ok |-> FALSE, error |-> "channel_not_found"]],
     [kind |-> "not_ok", body |-> [ok |-> FALSE]]}

\* bodies hold the key the tool reads; without is the body that lacks it
SlackUpstream(bodies, without) ==
    SlackFailures
    \cup {[kind |-> "ok", body |-> b, on_missing |-> "KeyError"] : b \in bodies \cup {without}}
    \cup {[kind |-> "ok", body |-> without, on_missing |-> "None"]}

OkOnly == [ok |-> TRUE]

PostBodies == {[ok |-> TRUE, ts |-> "1700000000.000100"]}

ChannelRecords ==
    {[id |-> "C1", name |-> "general", is_private |-> FALSE, is_member |-> TRUE,
      topic |-> [value |-> "all"]],
     [id |-> "C2", name |-> "secret", is_private |-> TRUE],
     [id |-> "D3"],
     [name |-> "lost"]}

ChannelsBodies ==
    {[ok |-> TRUE, channels |-> s] : s \in SeqsUpTo(ChannelRecords, MaxRecords)}

MessageRecords ==
    {[ts |-> 5, user |-> "U1", text |-> "hi"],
     [ts |-> 65],
     [ts |-> 3725, subtype |-> "bot_message", text |-> "beep"],
     [ts |-> 7, subtype |-> "file_share", user |-> "U2", files |-> <<[name |-> "a.txt"]>>],
     [ts |-> 9, subtype |-> "file_share", files |-> <<>>],
     [ts |-> 11, subtype |-> "file_share", user |-> "U2"],
     [user |-> "U1", text |-> "undated"]}

HistoryBodies ==
    {[ok |-> TRUE, messages |-> s] : s \in SeqsUpTo(MessageRecords, MaxRecords)}

UserRecords ==
    {[id |-> "U1", name |-> "ann", tz |-> "UTC", is_admin |-> TRUE,
      profile |-> [real_name |-> "Ann A", display_name |-> "ann", email |-> "a@x.io",
                   title |-> "SRE", status_text |-> "away"]],
     [id |-> "U2", is_bot |-> TRUE, profile |-> [real_name |-> "Bot"]],
     [id |-> "U3"],
     [name |-> "ghost"]}

UserBodies == {[ok |-> TRUE, user |-> u] : u \in UserRecords}

MatchRecords ==
    {[ts |-> 5, user |-> "U1", text |-> "boom", channel |-> [name |-> "ops"]],
     [ts |-> 65, channel |-> EmptyDict],
     [ts |-> 3725],
     [text |-> "undated"]}

SearchBodies ==
    {[ok |-> TRUE, messages |-> EmptyDict]}
    \cup {[ok |-> TRUE, messages |-> [matches |-> s]] :
            s \in SeqsUpTo(MatchRecords, MaxRecords)}

NewRelicTools == {"list_applications", "get_application", "get_application_metrics",
                  "list_servers", "get_alert_policies"}

SlackTools == {"send_message", "list_channels", "get_channel_history",
               "get_user_info", "search_messages"}

(***************************************************************************)
(* The state machine.                                                      *)
(***************************************************************************)
Init ==
    /\ api_key \in Credentials
    /\ slack_token \in Credentials
    /\ slack_client = make_slack_client(slack_token)
    /\ tool = "none"
    /\ args = EmptyDict
    /\ upstream = [kind |-> "none"]
    /\ sent = <<>>
    /\ result = PyNone
    /\ raised = PyNone
    /\ path = "idle"
    /\ repeats = 0
    /\ first = PyNone

\* the tool registry: the function registered under a name
Dispatch(name, a, up) ==
    CASE name = "list_applications" -> list_applications(api_key, a, up)
      [] name = "get_application" -> get_application(api_key, a, up)
      [] name = "get_application_metrics" -> get_application_metrics(api_key, a, up)
      [] name = "list_servers" -> list_servers(api_key, a, up)
      [] name = "get_alert_policies" -> get_alert_policies(api_key, a, up)
      [] name = "send_message" -> send_message(slack_client, a, up)
      [] name = "list_channels" -> list_channels(slack_client, a, up)
      [] name = "get_channel_history" -> get_channel_history(slack_client, a, up)
      [] name = "get_user_info" -> get_user_info(slack_client, a, up)
      [] OTHER -> search_messages(slack_client, a, up)

Idle == tool = "none"

\* what the caller gets: the string returned, or the exception raised
Answer(o) == IF o.raised = PyNone THEN o.result ELSE o.raised

\* The harness calls the tool registered under name, when no call is being
\* followed (Idle): calls share nothing but the credentials, so one call at a
\* time is followed.
Invoke(name, a, up) ==
    LET o == Dispatch(name, a, up)
    IN  /\ tool' = name
        /\ args' = a
        /\ upstream' = up
        /\ sent' = o.sent
        /\ result' = o.result
        /\ raised' = o.raised
        /\ path' = o.path
        /\ repeats' = 0
        /\ first' = Answer(o)
        /\ UNCHANGED <<api_key, slack_token, slack_client>>

ListApplications ==
    \E filter_name \in {PyNone, "web"}, filter_language \in {PyNone, "python"},
       up \in NewRelicUpstream(ApplicationsBodies) :
        /\ Idle
        /\ Invoke("list_applications",
               [filter_name |-> filter_name, filter_language |-> filter_language], up)

GetApplication ==
    \E app_id \in {7, 8}, up \in NewRelicUpstream(ApplicationBodies) :
        /\ Idle
        /\ Invoke("get_application", [app_id |-> app_id], up)

GetApplicationMetrics ==
    \E metric_names \in {"Apdex", "Apdex,Http"},
       from_time \in {PyNone, "", "2024-01-01T00:00:00"},
       to_time \in {PyNone, "", "2024-01-01T01:00:00"},
       now \in Clocks, up \in NewRelicUpstream(MetricsBodies) :
        /\ Idle
        /\ Invoke("get_application_metrics",
               [app_id |-> 7, metric_names |-> metric_names, from_time |-> from_time,
                to_time |-> to_time],
               WithNow(up, now))

ListServers ==
    \E up \in NewRelicUpstream(ServersBodies) :
        /\ Idle
        /\ Invoke("list_servers", EmptyDict, up)

GetAlertPolicies ==
    \E up \in NewRelicUpstream(PoliciesBodies) :
        /\ Idle
        /\ Invoke("get_alert_policies", EmptyDict, up)

SendMessage ==
    \E channel \in {"#general", "C1"}, thread_ts \in {PyNone, "1700000000.000100"},
       up \in SlackUpstream(PostBodies, OkOnly) :
        /\ Idle
        /\ Invoke("send_message",
               [channel |-> channel, text |-> "hello", thread_ts |-> thread_ts], up)

ListChannels ==
    \E types \in {"public_channel,private_channel", "im"},
       up \in SlackUpstream(ChannelsBodies, OkOnly) :
        /\ Idle
        /\ Invoke("list_channels", [types |-> types], up)

GetChannelHistory ==
    \E limit \in {10, 1000, 2500}, oldest \in {PyNone, "1700000000.000100"},
       up \in SlackUpstream(HistoryBodies, OkOnly) :
        /\ Idle
        /\ Invoke("get_channel_history",
               [channel |-> "C1", limit |-> limit, oldest |-> oldest], up)

GetUserInfo ==
    \E user_id \in {"U1", "U2"}, up \in SlackUpstream(UserBodies, OkOnly) :
        /\ Idle
        /\ Invoke("get_user_info", [user_id |-> user_id], up)

SearchMessages ==
    \E count \in {20, 100, 250}, up \in SlackUpstream(SearchBodies, OkOnly) :
        /\ Idle
        /\ Invoke("search_messages", [query |-> "error", count |-> count], up)

\* the harness invokes the same tool again, same arguments, same upstream
Reinvoke ==
    /\ tool # "none"
    /\ repeats < MaxRepeats
    /\ LET o == Dispatch(tool, args, upstream)
       IN  /\ sent' = o.sent
           /\ result' = o.result
           /\ raised' = o.raised
           /\ path' = o.path
    /\ repeats' = repeats + 1
    /\ UNCHANGED <<api_key, slack_token, slack_client, tool, args, upstream, first>>

\* the harness takes the answer; nothing of the call is kept
Finish ==
    /\ tool # "none"
    /\ tool' = "none"
    /\ args' = EmptyDict
    /\ upstream' = [kind |-> "none"]
    /\ sent' = <<>>
    /\ result' = PyNone
    /\ raised' = PyNone
    /\ path' = "idle"
    /\ repeats' = 0
    /\ first' = PyNone
    /\ UNCHANGED <<api_key, slack_token, slack_client>>

Next ==
    \/ ListApplications
    \/ GetApplication
    \/ GetApplicationMetrics
    \/ ListServers
    \/ GetAlertPolicies
    \/ SendMessage
    \/ ListChannels
    \/ GetChannelHistory
    \/ GetUserInfo
    \/ SearchMessages
    \/ Reinvoke
    \/ Finish

Spec == Init /\ [][Next]_vars


(***************************************************************************)
(* Properties.                                                             *)
(***************************************************************************)
Called == tool # "none"

\* the credential of the server of the last call is not set
CredentialUnset ==
    \/ tool \in NewRelicTools /\ ~Truthy(api_key)
    \/ tool \in SlackTools /\ slack_client = PyNone

GuardPassed == Called /\ ~CredentialUnset

\* C1: every tool call ends by returning a string; no exception escapes to
\* the invocation harness, whatever the credentials, arguments and upstream
\* outcome.
C1_EveryToolReturnsAString == Called => (raised = PyNone /\ result # PyNone)

\* C2: a tool call made while the credential of its server is unset makes no
\* upstream call at all.
C2_NoUpstreamCallWithoutCredential == CredentialUnset => Len(sent) = 0

C2_Witness ==
    /\ tool = "get_channel_history" /\ slack_client = PyNone /\ upstream.kind = "ok"
    /\ sent = <<>>

\* the fixed configuration-error string of the server of the last call
ConfigurationError ==
    IF tool \in NewRelicTools THEN CONFIG_MSG_NEWRELIC ELSE CONFIG_MSG_SLACK

\* C3: a tool call made while the credential is unset returns the fixed
\* configuration-error string of its server, the same for every tool and
\* every argument.
C3_FixedConfigurationErrorReturned == CredentialUnset => result = ConfigurationError

\* C4: a tool call that passes the credential guard makes exactly one
\* upstream call, and no call makes more than one: nothing is retried after
\* a failure.
C4_ExactlyOneAttempt ==
    /\ Len(sent) <= 1
    /\ GuardPassed => Len(sent) = 1

C4_Witness ==
    /\ tool = "list_servers" /\ GuardPassed /\ upstream.kind = "http_error"
    /\ Len(sent) = 1 /\ path = "except"

\* the fixed text a messaging tool puts before the error of a response whose
\* ok flag is false
FailedPrefix ==
    CASE tool = "send_message" -> "Failed to send message: "
      [] tool = "list_channels" -> "Failed to list channels: "
      [] tool = "get_channel_history" -> "Failed to get channel history: "
      [] tool = "get_user_info" -> "Failed to get user info: "
      [] OTHER -> "Failed to search messages: "

\* C5: a messaging tool that gets a response with ok false returns the
\* application-error text carrying the response's error field ("Unknown
\* error" when there is none), never the success rendering; send_message
\* getting error "channel_not_found" returns exactly
\* "Failed to send message: channel_not_found".
C5_NotOkIsApplicationError ==
    (GuardPassed /\ tool \in SlackTools /\ upstream.kind = "not_ok") =>
        /\ path = "failed"
        /\ result = FailedPrefix \o (IF Has(upstream.body, "error")
                                     THEN upstream.body.error ELSE "Unknown error")
        /\ (tool = "send_message" /\ Has(upstream.body, "error")
              /\ upstream.body.error = "channel_not_found")
             => result = "Failed to send message: channel_not_found"

C5_Witness ==
    /\ tool = "send_message" /\ GuardPassed /\ upstream.kind = "not_ok"
    /\ result = "Failed to send message: channel_not_found"


\* str.split("\n") of a text
RECURSIVE splitlines(_)
splitlines(s) ==
    LET breaks == {i \in 1..Len(s) : SubSeq(s, i, i) = "\n"}
        break == CHOOSE i \in breaks : \A j \in breaks : i <= j
    IN  IF breaks = {} THEN <<s>>
        ELSE <<SubSeq(s, 1, break - 1)>> \o splitlines(SubSeq(s, break + 1, Len(s)))

CountWhere(seq, P(_)) == Cardinality({i \in DOMAIN seq : P(seq[i])})

ListTools == {"list_applications", "list_servers", "get_alert_policies",
              "list_channels", "get_channel_history", "search_messages"}

\* the key of the collection a list tool reads from the body
CollectionKey ==
    CASE tool = "list_applications" -> "applications"
      [] tool = "list_servers" -> "servers"
      [] tool = "get_alert_policies" -> "policies"
      [] tool = "list_channels" -> "channels"
      [] OTHER -> "messages"

\* the upstream answered (for slack with ok true) with a JSON object
UpstreamSucceeded == GuardPassed /\ upstream.kind = "ok" /\ IsObject(upstream.body)

\* the records of the collection in the body; none when the key is absent
Records ==
    IF ~Has(upstream.body, CollectionKey) THEN <<>>
    ELSE IF tool = "search_messages"
    THEN Get(upstream.body["messages"], "matches", <<>>)
    ELSE upstream.body[CollectionKey]

NoResultsSentence ==
    CASE tool = "list_applications" -> "No applications found matching the criteria."
      [] tool = "list_servers" -> "No servers found."
      [] tool = "get_alert_policies" -> "No alert policies found."
      [] tool = "get_channel_history" -> "No messages found in " \o args.channel
      [] tool = "search_messages" -> "No messages found for query: '" \o args.query \o "'"
      [] OTHER -> PyNone

\* C6: a list tool whose upstream succeeded with the collection absent or
\* empty returns its fixed "no results" sentence: not an error text, not an
\* empty text, not a count header over zero records.
C6_EmptyCollectionGivesNoResultsSentence ==
    (tool \in ListTools /\ UpstreamSucceeded /\ Records = <<>>) =>
        /\ path = "empty"
        /\ result = NoResultsSentence

\* the header line of a list tool over n records
CountHeader(n) ==
    CASE tool = "list_applications" -> "Found " \o ToString(n) \o " applications:"
      [] tool = "list_servers" -> "Found " \o ToString(n) \o " servers:"
      [] tool = "get_alert_policies" -> "Found " \o ToString(n) \o " alert policies:"
      [] tool = "list_channels" -> "Found " \o ToString(n) \o " channels:"
      [] tool = "get_channel_history" ->
           "Message history for " \o args.channel \o " (" \o ToString(n) \o " messages):"
      [] OTHER ->
           "Search results for '" \o args.query \o "' (" \o ToString(n) \o " matches):"

\* the first line of a record block of the last tool
IsBlockStart(line) ==
    CASE tool \in NewRelicTools -> StartsWith(line, BULLET \o " **")
      [] tool = "list_channels" -> StartsWith(line, "- #")
      [] OTHER -> StartsWith(line, "[")

\* a line inside a record block of a monitoring tool, or the empty line
\* that ends the block
IsBlockRest(line) == line = "" \/ StartsWith(line, "  - ")

\* the text is one header line and then n record blocks, nothing else
HasBlocks(n) ==
    LET lines == splitlines(result)
        rest == Tail(lines)
    IN  /\ CountWhere(rest, IsBlockStart) = n
        /\ \A i \in DOMAIN rest :
             \/ IsBlockStart(rest[i])
             \/ tool \in NewRelicTools /\ IsBlockRest(rest[i])
             \/ tool \in {"get_channel_history", "search_messages"} /\ i = 1 /\ rest[i] = ""

\* A record carries the keys its tool reads without a default, which the
\* messaging platform always sends: the id of a channel, the ts of a message
\* or match, and a first file on a file_share message that has a files list.
Complete(r) ==
    CASE tool = "list_channels" -> Has(r, "id")
      [] tool = "get_channel_history" ->
           /\ Has(r, "ts")
           /\ ~(Has(r, "subtype") /\ r["subtype"] = "file_share"
                /\ Has(r, "files") /\ r["files"] = <<>>)
      [] tool = "search_messages" -> Has(r, "ts")
      [] OTHER -> TRUE

\* a Success outcome of a list tool with at least one record
ListSuccess ==
    /\ tool \in ListTools /\ UpstreamSucceeded /\ Len(Records) >= 1
    /\ \A i \in DOMAIN Records : Complete(Records[i])

EndsWith(s, p) == Len(s) >= Len(p) /\ SubSeq(s, Len(s) - Len(p) + 1, Len(s)) = p

\* the field lines the spec gives every block of a monitoring list tool
AllFieldLabels ==
    CASE tool = "list_applications" ->
           {"  - Health: ", "  - Reporting: ", "  - Language: ",
            "  - Response Time: ", "  - Throughput: ", "  - Error Rate: "}
      [] tool = "list_servers" ->
           {"  - Health: ", "  - Reporting: ", "  - Host: ",
            "  - CPU: ", "  - Memory: ", "  - Disk I/O: "}
      [] tool = "get_alert_policies" ->
           {"  - Incident Preference: ", "  - Created: ", "  - Updated: "}
      [] OTHER -> {}

Number(P(_)) == CountWhere(Records, P)

\* the nested summary of a record of a monitoring list tool
SummaryKey == IF tool = "list_applications" THEN "application_summary" ELSE "summary"

HasSummary(r) == Has(r, SummaryKey) /\ DOMAIN r[SummaryKey] # {}

\* the text occurs once for each record that satisfies P, and nowhere else
Marks(text, P(_)) == Count(result, text) = Number(P)

\* the blocks of list_applications and list_servers
C8_MonitoredBlocks ==
    LET other == IF tool = "list_applications" THEN "language" ELSE "host"
        Other == IF tool = "list_applications" THEN "  - Language: " ELSE "  - Host: "
        subs == IF tool = "list_applications"
                THEN << <<"response_time", "  - Response Time: ", "ms\n">>,
                        <<"throughput", "  - Throughput: ", " rpm\n">>,
                        <<"error_rate", "  - Error Rate: ", "%\n">> >>
                ELSE << <<"cpu", "  - CPU: ", "%\n">>,
                        <<"memory", "  - Memory: ", "%\n">>,
                        <<"disk_io", "  - Disk I/O: ", "%\n">> >>
    IN  /\ \A label \in {BULLET \o " **", "  - Health: ", "  - Reporting: ", Other} :
             Count(result, label) = Len(Records)
        /\ Marks(BULLET \o " **Unknown** (ID: ", LAMBDA r : ~Has(r, "name"))
        /\ Marks("** (ID: None)\n", LAMBDA r : ~Has(r, "id"))
        /\ Marks("  - Health: unknown\n", LAMBDA r : ~Has(r, "health_status"))
        /\ Marks("  - Reporting: " \o CROSS \o "\n",
                 LAMBDA r : ~Has(r, "reporting") \/ ~r["reporting"])
        /\ Marks(Other \o "N/A\n", LAMBDA r : ~Has(r, other))
        /\ \A i \in DOMAIN subs :
             /\ Marks(subs[i][2], HasSummary)
             /\ Marks(subs[i][2] \o "N/A" \o subs[i][3],
                      LAMBDA r : HasSummary(r) /\ ~Has(r[SummaryKey], subs[i][1]))

\* the blocks of get_alert_policies
C8_PolicyBlocks ==
    /\ \A label \in {BULLET \o " **", "  - Incident Preference: "} :
         Count(result, label) = Len(Records)
    /\ Marks(BULLET \o " **Unknown** (ID: ", LAMBDA r : ~Has(r, "name"))
    /\ Marks("** (ID: None)\n", LAMBDA r : ~Has(r, "id"))
    /\ Marks("  - Incident Preference: N/A\n", LAMBDA r : ~Has(r, "incident_preference"))
    /\ Marks("  - Created: ", LAMBDA r : Has(r, "created_at") /\ r["created_at"] # "")
    /\ Marks("  - Updated: ", LAMBDA r : Has(r, "updated_at") /\ r["updated_at"] # "")

\* the lines of list_channels, get_channel_history and search_messages
C8_MessagingLines ==
    LET lines == splitlines(result)
        Empty == CountWhere(lines, LAMBDA l : EndsWith(l, ": "))
        IsBot(r) == Has(r, "subtype") /\ r["subtype"] = "bot_message"
        IsFile(r) == Has(r, "subtype") /\ r["subtype"] = "file_share"
    IN  CASE tool = "list_channels" ->
               /\ Marks("- # (", LAMBDA r : ~Has(r, "name"))
               /\ Marks(") - Public", LAMBDA r : ~Has(r, "is_private") \/ ~r["is_private"])
          [] tool = "get_channel_history" ->
               /\ Marks("] Unknown: ", LAMBDA r : ~IsBot(r) /\ ~Has(r, "user"))
               /\ Marks("] Bot: ", LAMBDA r : IsBot(r) /\ ~Has(r, "bot_id"))
               /\ Marks(": [File shared: Unknown]",
                        LAMBDA r : IsFile(r) /\ (Has(r, "files") => ~Has(r["files"][1], "name")))
               /\ Empty = Number(LAMBDA r : ~IsFile(r) /\ ~Has(r, "text"))
          [] OTHER ->
               /\ Marks("] #Unknown - ",
                        LAMBDA r : ~Has(r, "channel") \/ ~Has(r["channel"], "name"))
               /\ Marks(" - Unknown: ", LAMBDA r : ~Has(r, "user"))
               /\ Empty = Number(LAMBDA r : ~Has(r, "text"))

\* the text occurs once if the condition holds, and not at all otherwise
Shows(text, cond) == Count(result, text) = IF cond THEN 1 ELSE 0

\* a successful call of a tool that renders one record
RecordSuccess ==
    /\ UpstreamSucceeded
    /\ \/ /\ tool = "get_application"
          /\ Has(upstream.body, "application")
          /\ DOMAIN upstream.body["application"] # {}
       \/ /\ tool = "get_user_info"
          /\ Has(upstream.body, "user")
          /\ Has(upstream.body["user"], "id")

\* the text of get_application
C8_ApplicationDetails ==
    LET app == upstream.body["application"]
        Section(k) == Has(app, k) /\ DOMAIN app[k] # {}
    IN  /\ \A label \in {"**Application Details: ", "- **ID**: ", "- **Health Status**: ",
                         "- **Reporting**: ", "- **Language**: "} :
             Count(result, label) = 1
        /\ Shows("**Application Details: Unknown**", ~Has(app, "name"))
        /\ Shows("- **ID**: None\n", ~Has(app, "id"))
        /\ Shows("- **Health Status**: unknown\n", ~Has(app, "health_status"))
        /\ Shows("- **Reporting**: No\n", ~Has(app, "reporting") \/ ~app["reporting"])
        /\ Shows("- **Language**: N/A\n", ~Has(app, "language"))
        /\ Shows("- **Last Reported**: ",
                 Has(app, "last_reported_at") /\ app["last_reported_at"] # "")
        /\ Shows("**Performance Summary:**", Section("application_summary"))
        /\ Shows("**End User Summary:**", Section("end_user_summary"))
        /\ Shows("**Settings:**", Section("settings"))
        /\ Shows("- Error Rate: N/A%\n",
                 Section("application_summary")
                   /\ ~Has(app["application_summary"], "error_rate"))

\* the text of get_user_info
C8_UserLines ==
    LET user == upstream.body["user"]
        profile == IF Has(user, "profile") THEN user["profile"] ELSE EmptyDict
    IN  /\ Len(splitlines(result)) = 11
        /\ \A label \in {"User ID: ", "Name: ", "Real Name: ", "Display Name: ", "Email: ",
                         "Title: ", "Status: ", "Timezone: ", "Is Admin: ", "Is Bot: ",
                         "Is Deleted: "} :
             \E i \in 1..11 : StartsWith(splitlines(result)[i], label)
        /\ Shows("\nName: N/A\n", ~Has(user, "name"))
        /\ Shows("Real Name: N/A\n", ~Has(profile, "real_name"))
        /\ Shows("Display Name: N/A\n", ~Has(profile, "display_name"))
        /\ Shows("Email: N/A\n", ~Has(profile, "email"))
        /\ Shows("Title: N/A\n", ~Has(profile, "title"))
        /\ Shows("Status: N/A\n", ~Has(profile, "status_text"))
        /\ Shows("Timezone: N/A\n", ~Has(user, "tz"))
        /\ Shows("Is Admin: False\n", ~Has(user, "is_admin") \/ ~user["is_admin"])
        /\ Shows("Is Bot: False\n", ~Has(user, "is_bot") \/ ~user["is_bot"])
        /\ Shows("Is Deleted: False", ~Has(user, "deleted") \/ ~user["deleted"])

TransportFailure ==
    GuardPassed /\ upstream.kind \in {"network", "http_error", "api_error", "exception"}

\* the underlying cause text of the failure
Cause == IF upstream.kind = "api_error" THEN upstream.error ELSE upstream.cause

\* the fixed text a tool puts before the cause
ErrorPrefix ==
    CASE upstream.kind = "api_error" -> "Slack API error: "
      [] tool = "list_applications" -> "Error listing applications: "
      [] tool = "get_application" -> "Error getting application details: "
      [] tool = "get_application_metrics" -> "Error getting application metrics: "
      [] tool = "list_servers" -> "Error listing servers: "
      [] tool = "get_alert_policies" -> "Error getting alert policies: "
      [] tool = "send_message" -> "Error sending message: "
      [] tool = "list_channels" -> "Error listing channels: "
      [] tool = "get_channel_history" -> "Error getting channel history: "
      [] tool = "get_user_info" -> "Error getting user info: "
      [] OTHER -> "Error searching messages: "

C10_HistoryReversedAndBounded ==
    /\ (tool = "get_channel_history" /\ GuardPassed) =>
          /\ sent[1].kwargs.limit = (IF args.limit <= 1000 THEN args.limit ELSE 1000)
          /\ sent[1].kwargs.limit <= 1000
    /\ (tool = "get_channel_history" /\ ListSuccess) =>
          LET lines == splitlines(result)
              n == Len(Records)
          IN  /\ path = "success"
              /\ Len(lines) = n + 2
              /\ \A i \in 1..n :
                   StartsWith(lines[2 + i], "[" \o strftime(Records[n + 1 - i]["ts"]) \o "] ")

C10_Witness ==
    /\ tool = "get_channel_history" /\ path = "success" /\ Len(Records) = 2
    /\ Records[1]["ts"] = 5 /\ Records[2]["ts"] = 3725
    /\ args.limit = 2500 /\ sent[1].kwargs.limit = 1000
    /\ result = "Message history for C1 (2 messages):\n\n"
                  \o "[1970-01-01 01:02:05] Bot: beep\n[1970-01-01 00:00:05] U1: hi"

(***************************************************************************)
(* The time range of get_application_metrics.                              *)
(***************************************************************************)
MetricsSent == tool = "get_application_metrics" /\ GuardPassed

\* a bound the caller leaves out: None, or the empty string, which the test
\* "if from_time:" treats as None
Omitted(bound) == ~Truthy(bound)

\* the request carries a from and a to bound, each a non-empty string
BothBoundsSent ==
    MetricsSent =>
        /\ Len(sent) = 1
        /\ {"from", "to"} \subseteq DOMAIN sent[1].params
        /\ Truthy(sent[1].params["from"]) /\ Truthy(sent[1].params["to"])

\* a bound the caller gives is sent as given, whatever the other bound is
SuppliedPassedThrough ==
    MetricsSent =>
        /\ ~Omitted(args.from_time) => sent[1].params["from"] = args.from_time
        /\ ~Omitted(args.to_time) => sent[1].params["to"] = args.to_time

\* each omitted bound is taken from its own reading of the clock, whatever the
\* other bound is
DefaultedFromOwnReading ==
    MetricsSent =>
        /\ Omitted(args.from_time) =>
               sent[1].params["from"] = isoformat(upstream.now[1] - 30)
        /\ Omitted(args.to_time) =>
               sent[1].params["to"] = isoformat(upstream.now[2])

\* the Time Range line of a result shows the bounds that were sent
TimeRangePrinted ==
    (MetricsSent /\ path = "success") =>
        splitlines(result)[2] = "Time Range: " \o sent[1].params["from"] \o " to "
                                    \o sent[1].params["to"]

\* the omitted bounds are computed from one call time t, a moment of the call
DefaultedFromCallTime ==
    MetricsSent =>
        \E t \in upstream.now[1]..upstream.now[2] :
            /\ Omitted(args.from_time) => sent[1].params["from"] = isoformat(t - 30)
            /\ Omitted(args.to_time) => sent[1].params["to"] = isoformat(t)

MetricsBoundsKept ==
    /\ BothBoundsSent
    /\ SuppliedPassedThrough
    /\ DefaultedFromOwnReading
    /\ TimeRangePrinted

\* a call with no explicit range whose two clock readings differ
MetricsWindowOverThirty ==
    /\ MetricsSent /\ path = "success"
    /\ args.from_time = PyNone /\ args.to_time = PyNone
    /\ upstream.now = <<59, 60>>
    /\ sent[1].params["from"] = "2024-01-01T00:29:00"
    /\ sent[1].params["to"] = "2024-01-01T01:00:00"

=============================================================================
